---- MODULE Spec2Model ----
(***************************************************************************)
(* State-machine model of the Flask application in                         *)
(* "src/new instagrapi/main.py": the per-browser-session data (credentials *)
(* and the two-slot undo buffer), the process-wide instagrapi client, the  *)
(* on-disk session file, and one action per route handler.                 *)
(*                                                                         *)
(* Python strings that the code inspects (idea, service text, status) are  *)
(* sequences of characters or words; None is the record PyNone; a key that *)
(* is not in the Flask session is the record Absent.                       *)
(***************************************************************************)
EXTENDS Integers, Sequences, FiniteSets, TLC

\* ------------------------------------------------------------------ bounds
\* number of distinct second-granularity timestamps a file name can carry
MaxStamp == 2

\* ------------------------------------------------------------ value spaces
PyNone == [kind |-> "None"]
Absent == [kind |-> "absent"]

\* a Python str, as the sequence of its characters
Str(t) == [kind |-> "str", chars |-> t]

\* browser sessions (Flask session cookies) and social-media accounts
Sessions == {"A", "B"}
Users == {Str(<<"u1">>), Str(<<"u2">>)}

\* the password the social-media service accepts for an account
PasswordOf(u) == Str(<<"pw">> \o u.chars)
WrongPassword == Str(<<"pw", "x">>)
Passwords == {PasswordOf(u) : u \in Users} \cup {WrongPassword}

OUTPUT_DIR == "static/generated_images"
INSTAGRAM_USERNAME == PyNone
INSTAGRAM_PASSWORD == PyNone

\* Python truthiness of the values the handlers test with "if x" / "not x"
Truthy(x) == x # PyNone /\ x # Absent /\ x # Str(<<>>)

\* dict.get / session.get: a missing key reads as None
SessionGet(v) == IF v = Absent THEN PyNone ELSE v

\* str.strip() on a sequence of characters
RECURSIVE LStrip(_)
LStrip(t) == IF t = <<>> THEN <<>>
             ELSE IF Head(t) = " " THEN LStrip(Tail(t)) ELSE t

RECURSIVE RStrip(_)
RStrip(t) == IF t = <<>> THEN <<>>
             ELSE IF t[Len(t)] = " " THEN RStrip(SubSeq(t, 1, Len(t) - 1)) ELSE t

Strip(x) == Str(RStrip(LStrip(x.chars)))

\* ------------------------------------------------------------------ inputs
\* request.form.get('idea'): missing field, empty string, text
Ideas == {PyNone, Str(<<>>), Str(<<"c">>)}

\* outcome of the text service call client.models.generate_content
TextOutcomes == {[kind |-> "raise"],
                 [kind |-> "text", text |-> PyNone],
                 [kind |-> "text", text |-> Str(<<>>)],
                 [kind |-> "text", text |-> Str(<<" ">>)],
                 [kind |-> "text", text |-> Str(<<" ", "p", " ">>)]}

\* outcome of the image service call and of decoding its answer
ImageOutcomes == {"ok", "service_error", "no_image_data"}

Stamps == 1..MaxStamp

\* login form fields of POST /login/instagram/submit
FormUsernames == Users \cup {Str(<<>>)}
FormPasswords == Passwords \cup {PyNone}

\* body of POST /post as request.get_json() / data.get see it
Payloads == {"valid", "no_image_path", "absent", "not_object"}

\* ------------------------------------------------------------------- state
VARIABLES
    sess,       \* Flask session of each browser session
    cl,         \* the process-wide instagrapi Client
    sessfile,   \* the file INSTAGRAM_SESSION_FILE on disk
    resp        \* the last request: who, which route, response, calls made

vars == <<sess, cl, sessfile, resp>>

\* Client(): a fresh, unauthenticated client
FreshClient == [user |-> PyNone, logged_in |-> FALSE]

NoFile == [kind |-> "absent"]
ValidFile(u) == [kind |-> "valid", user |-> u]
CorruptFile == [kind |-> "corrupt"]

EmptySession == [instagram_username |-> Absent,
                 instagram_password |-> Absent,
                 last_generated_image_data |-> Absent,
                 last_generated_image_data_prev |-> Absent]

\* a Flask session is a signed cookie kept by the browser: it outlives the
\* process, so a browser may come back with the credentials of a login that
\* an earlier run of the server verified
ReturningSession(u) == [EmptySession EXCEPT !.instagram_username = u,
                                            !.instagram_password = PasswordOf(u)]
StartSessions == {EmptySession} \cup {ReturningSession(u) : u \in Users}

\* the browser session whose requests Spec follows
Browser == {"A"}

Init ==
    /\ sess \in [Sessions -> StartSessions]
    /\ \A s \in Sessions \ Browser : sess[s] = EmptySession
    /\ cl = FreshClient
    /\ sessfile \in {NoFile, CorruptFile} \cup {ValidFile(u) : u \in Users}
    /\ resp = [op |-> "start", s |-> "none", req |-> PyNone, status |-> 0, body |-> PyNone, calls |-> <<>>]

\* ------------------------------------------------------- generate pipeline
\* generate_prompt: the service text stripped, or the idea on any exception
\* (response.text of None makes .strip() raise, which the except catches)
generate_prompt(user_input, out) ==
    IF out.kind = "text" /\ out.text # PyNone THEN Strip(out.text) ELSE user_input

ImagePath(n) == [dir |-> OUTPUT_DIR, stamp |-> n]
ImageUrl(n) == [root |-> "/", dir |-> OUTPUT_DIR, stamp |-> n]

\* generate_image: (image_path, image_url, status)
GenerateImageKeepsStalePath(prompt, out, n) ==
    IF out = "ok"
    THEN <<ImagePath(n), ImageUrl(n), <<"Image", "generation", "successful!">>>>
    ELSE <<ImagePath(n), ImageUrl(n), <<"Error", "generating", "image:", out>>>>
generate_image(prompt, out, n) ==
    IF out = "ok"
    THEN <<ImagePath(n), ImageUrl(n), <<"Image", "generation", "successful!">>>>
    ELSE <<PyNone, PyNone, <<"Error", "generating", "image:", out>>>>

\* "if image_path and image_url": the generation counts as successful
StoreUnconditionally(image_path, image_url) == TRUE
generation_succeeded(image_path, image_url) == Truthy(image_path) /\ Truthy(image_url)

\* the two assignments of a successful generation, on one Flask session
RecordSuccessCurrentFirst(d, result) ==
    [d EXCEPT !.last_generated_image_data = result,
              !.last_generated_image_data_prev = result]
record_success(d, result) ==
    [d EXCEPT !.last_generated_image_data_prev = SessionGet(d.last_generated_image_data),
              !.last_generated_image_data = result]

\* "if not user_idea"
AcceptAnyIdea(user_idea) == FALSE
idea_rejected(user_idea) == ~Truthy(user_idea)

\* POST /generate; the outcomes of the two service calls and the timestamp
\* of the file name are chosen once the idea is accepted
generate(s, user_idea) ==
    IF idea_rejected(user_idea)
    THEN /\ resp' = [op |-> "generate", s |-> s,
                     req |-> [idea |-> user_idea, text |-> [kind |-> "none"],
                              image |-> "none"],
                     status |-> 400,
                     body |-> [error |-> "Input cannot be empty."], calls |-> <<>>]
         /\ UNCHANGED <<sess, cl, sessfile>>
    ELSE \E tout \in TextOutcomes, iout \in ImageOutcomes, n \in Stamps :
         LET detailed_prompt == generate_prompt(user_idea, tout)
             img == generate_image(detailed_prompt, iout, n)
             result == [detailed_prompt |-> detailed_prompt,
                        image_url |-> img[2],
                        image_path |-> img[1],
                        image_status |-> img[3]]
         IN /\ sess' = IF generation_succeeded(img[1], img[2])
                       THEN [sess EXCEPT ![s] = record_success(sess[s], result)]
                       ELSE sess
            /\ resp' = [op |-> "generate", s |-> s,
                        req |-> [idea |-> user_idea, text |-> tout, image |-> iout],
                        status |-> 200, body |-> result,
                        calls |-> <<[fn |-> "generate_prompt", arg |-> user_idea],
                                    [fn |-> "generate_image", arg |-> detailed_prompt]>>]
            /\ UNCHANGED <<cl, sessfile>>

\* "if prev_result"
AlwaysHasPrevious(prev_result) == TRUE
has_previous(prev_result) == Truthy(prev_result)

\* the swap of GET /last_image, on one Flask session
PopKeepsPrevious(d, prev_result) ==
    [d EXCEPT !.last_generated_image_data = prev_result]
PopSwaps(d, prev_result) ==
    [d EXCEPT !.last_generated_image_data = prev_result,
              !.last_generated_image_data_prev = d.last_generated_image_data]
pop_previous(d, prev_result) ==
    [d EXCEPT !.last_generated_image_data = prev_result,
              !.last_generated_image_data_prev = Absent]

\* GET /last_image
get_last_image(s) ==
    LET prev_result == SessionGet(sess[s].last_generated_image_data_prev)
    IN IF has_previous(prev_result)
       THEN /\ sess' = [sess EXCEPT ![s] = pop_previous(sess[s], prev_result)]
            /\ resp' = [op |-> "last_image", s |-> s, req |-> PyNone, status |-> 200,
                        body |-> prev_result, calls |-> <<>>]
            /\ UNCHANGED <<cl, sessfile>>
       ELSE /\ resp' = [op |-> "last_image", s |-> s, req |-> PyNone, status |-> 404,
                        body |-> [error |-> "No previous image data found."],
                        calls |-> <<>>]
            /\ UNCHANGED <<sess, cl, sessfile>>

\* ------------------------------------------------------- login and logout
\* os.remove(INSTAGRAM_SESSION_FILE) if os.path.exists(...) else None
KeepFile(f) == f
RemoveFile(f) == NoFile

\* session['instagram_username'] = username; session['instagram_password'] = password
store_credentials(d, username, password) ==
    [d EXCEPT !.instagram_username = username, !.instagram_password = password]

\* the three session.pop calls of the except branch of the login handler
KeepFailedLogin(d) == d
clear_failed_login(d) ==
    [d EXCEPT !.instagram_username = Absent,
              !.instagram_password = Absent,
              !.last_generated_image_data = Absent]

\* the three session.pop calls of the logout handler
clear_logout(d) ==
    [d EXCEPT !.instagram_username = Absent,
              !.instagram_password = Absent,
              !.last_generated_image_data = Absent]

\* "cl = Client()" of the logout handler
KeepClient(c) == c
reset_client(c) == FreshClient

\* Client.login of the instagrapi library: it raises, or it returns.  A
\* wrong password always raises; any login may raise (network, challenge).
LoginOutcomes == {"ok", "raise"}
LoginPossible(out, username, password) ==
    out = "ok" => password = PasswordOf(username)

\* POST /login/instagram/submit
handle_instagram_login(s, username, password, out) ==
    IF ~Truthy(username) \/ ~Truthy(password)
    THEN /\ resp' = [op |-> "login", s |-> s,
                     req |-> [username |-> username, password |-> password, out |-> "none"],
                     status |-> 302,
                     body |-> [redirect |-> "instagram_login_page"], calls |-> <<>>]
         /\ UNCHANGED <<sess, cl, sessfile>>
    ELSE /\ LoginPossible(out, username, password)
         /\ IF out = "ok"
            THEN /\ sess' = [sess EXCEPT ![s] = store_credentials(sess[s], username, password)]
                 /\ sessfile' = ValidFile(username)
                 /\ resp' = [op |-> "login", s |-> s,
                             req |-> [username |-> username, password |-> password, out |-> out],
                             status |-> 302,
                             body |-> [redirect |-> "index"],
                             calls |-> <<[fn |-> "temp_cl.login", arg |-> username],
                                         [fn |-> "temp_cl.dump_settings", arg |-> username]>>]
            ELSE /\ sess' = [sess EXCEPT ![s] = clear_failed_login(
                                                      store_credentials(sess[s], username, password))]
                 /\ sessfile' = RemoveFile(sessfile)
                 /\ resp' = [op |-> "login", s |-> s,
                             req |-> [username |-> username, password |-> password, out |-> out],
                             status |-> 302,
                             body |-> [redirect |-> "instagram_login_page"],
                             calls |-> <<[fn |-> "temp_cl.login", arg |-> username]>>]
         /\ UNCHANGED cl

\* GET /logout
logout(s) ==
    /\ sess' = [sess EXCEPT ![s] = clear_logout(sess[s])]
    /\ sessfile' = RemoveFile(sessfile)
    /\ cl' = reset_client(cl)
    /\ resp' = [op |-> "logout", s |-> s, req |-> PyNone, status |-> 302,
                body |-> [redirect |-> "instagram_login_page"], calls |-> <<>>]

\* ------------------------------------------------------------------ upload
\* cl.load_settings: a readable file replaces the client's session, a
\* corrupt one raises and the except leaves the client as it was
load_settings(c, f) ==
    IF f.kind = "valid" THEN [c EXCEPT !.user = f.user] ELSE c

\* cl.login as login_instagram calls it on the process-wide client: "ok" is
\* a network login with the given credentials; "cached" is the library
\* returning without a network call because the client already carries a
\* session; "raise" is a rejected or failed login
ClientLoginOutcomes == {"ok", "cached", "raise"}
ClientLoginPossible(out, c, username, password) ==
    /\ out = "ok" => password = PasswordOf(username)
    /\ out = "cached" => c.user # PyNone

\* "if getattr(cl, 'logged_in', False)"
NeverLoggedIn(c) == FALSE
already_logged_in(c) == c.logged_in

\* login_instagram: the client, the session file, whether it returned or
\* raised, and the library calls it made.  flag is the value the library
\* leaves in the client's logged_in attribute after a login.
LoginAbortsOnCorruptFile(s, out, flag) ==
    LET su == SessionGet(sess[s].instagram_username)
        sp == SessionGet(sess[s].instagram_password)
        fallback == ~Truthy(su) \/ ~Truthy(sp)
        username == IF fallback THEN INSTAGRAM_USERNAME ELSE su
        password == IF fallback THEN INSTAGRAM_PASSWORD ELSE sp
        exists == sessfile.kind # "absent"
        c1 == IF exists THEN load_settings(cl, sessfile) ELSE cl
        loadcalls == IF exists THEN <<[fn |-> "cl.load_settings", arg |-> sessfile]>>
                     ELSE <<>>
    IN IF ~Truthy(username) \/ ~Truthy(password)
       THEN [ok |-> FALSE, error |-> "ValueError", cl |-> cl, file |-> sessfile,
             calls |-> <<>>]
       ELSE IF sessfile.kind = "corrupt"
       THEN [ok |-> FALSE, error |-> "LoadError", cl |-> cl, file |-> sessfile,
             calls |-> loadcalls]
       ELSE IF already_logged_in(c1)
       THEN [ok |-> TRUE, error |-> "none", cl |-> c1, file |-> sessfile,
             calls |-> loadcalls]
       ELSE IF out = "raise"
       THEN [ok |-> FALSE, error |-> "ConnectionError", cl |-> c1,
             file |-> RemoveFile(sessfile),
             calls |-> Append(loadcalls, [fn |-> "cl.login", arg |-> username])]
       ELSE LET c2 == [user |-> IF out = "cached" THEN c1.user ELSE username,
                       logged_in |-> flag]
            IN [ok |-> TRUE, error |-> "none", cl |-> c2, file |-> ValidFile(c2.user),
                calls |-> loadcalls \o <<[fn |-> "cl.login", arg |-> username],
                                         [fn |-> "cl.dump_settings", arg |-> c2.user]>>]
login_instagram(s, out, flag) ==
    LET su == SessionGet(sess[s].instagram_username)
        sp == SessionGet(sess[s].instagram_password)
        fallback == ~Truthy(su) \/ ~Truthy(sp)
        username == IF fallback THEN INSTAGRAM_USERNAME ELSE su
        password == IF fallback THEN INSTAGRAM_PASSWORD ELSE sp
        exists == sessfile.kind # "absent"
        c1 == IF exists THEN load_settings(cl, sessfile) ELSE cl
        loadcalls == IF exists THEN <<[fn |-> "cl.load_settings", arg |-> sessfile]>>
                     ELSE <<>>
    IN IF ~Truthy(username) \/ ~Truthy(password)
       THEN [ok |-> FALSE, error |-> "ValueError", cl |-> cl, file |-> sessfile,
             calls |-> <<>>]
       ELSE IF already_logged_in(c1)
       THEN [ok |-> TRUE, error |-> "none", cl |-> c1, file |-> sessfile,
             calls |-> loadcalls]
       ELSE IF out = "raise"
       THEN [ok |-> FALSE, error |-> "ConnectionError", cl |-> c1,
             file |-> RemoveFile(sessfile),
             calls |-> Append(loadcalls, [fn |-> "cl.login", arg |-> username])]
       ELSE LET c2 == [user |-> IF out = "cached" THEN c1.user ELSE username,
                       logged_in |-> flag]
            IN [ok |-> TRUE, error |-> "none", cl |-> c2, file |-> ValidFile(c2.user),
                calls |-> loadcalls \o <<[fn |-> "cl.login", arg |-> username],
                                         [fn |-> "cl.dump_settings", arg |-> c2.user]>>]

UploadOutcomes == {"ok", "raise"}

\* post_to_instagram: the boolean it returns, with the client, the session
\* file, the library calls, how the login step ended ("none" when it was not
\* reached) and how the upload call ended ("none" when it was not invoked)
PostLoginFirst(s, exists, lout, flag, uout) ==
    LET li == login_instagram(s, lout, flag)
    IN IF ~li.ok \/ ~exists
       THEN [ret |-> FALSE, cl |-> li.cl, file |-> li.file, calls |-> li.calls,
             login |-> IF li.ok THEN "ok" ELSE li.error, upload |-> "none"]
       ELSE [ret |-> uout = "ok", cl |-> li.cl, file |-> li.file,
             calls |-> Append(li.calls, [fn |-> "cl.photo_upload", arg |-> li.cl.user]),
             login |-> "ok", upload |-> uout]
PostUploadsAfterFailedLogin(s, exists, lout, flag, uout) ==
    IF ~exists
    THEN [ret |-> FALSE, cl |-> cl, file |-> sessfile, calls |-> <<>>,
          login |-> "none", upload |-> "none"]
    ELSE LET li == login_instagram(s, lout, flag)
         IN [ret |-> uout = "ok", cl |-> li.cl, file |-> li.file,
             calls |-> Append(li.calls, [fn |-> "cl.photo_upload", arg |-> li.cl.user]),
             login |-> IF li.ok THEN "ok" ELSE li.error, upload |-> uout]
post_to_instagram(s, exists, lout, flag, uout) ==
    IF ~exists
    THEN [ret |-> FALSE, cl |-> cl, file |-> sessfile, calls |-> <<>>,
          login |-> "none", upload |-> "none"]
    ELSE LET li == login_instagram(s, lout, flag)
         IN IF ~li.ok
            THEN [ret |-> FALSE, cl |-> li.cl, file |-> li.file, calls |-> li.calls,
                  login |-> li.error, upload |-> "none"]
            ELSE [ret |-> uout = "ok", cl |-> li.cl, file |-> li.file,
                  calls |-> Append(li.calls, [fn |-> "cl.photo_upload", arg |-> li.cl.user]),
                  login |-> "ok", upload |-> uout]

\* status of a request whose body request.get_json() or data.get rejects:
\* no JSON body is 415 in current Flask and None (then AttributeError, 500)
\* in older ones; a JSON array, string, number or null has no usable .get
BadBodyStatuses(payload) == IF payload = "absent" THEN {415, 500} ELSE {500}

\* POST /post; the outcomes of the library calls are chosen once the request
\* reaches post_to_instagram
post(s, payload, exists) ==
    IF payload \in {"absent", "not_object"}
    THEN /\ \E st \in BadBodyStatuses(payload) :
              resp' = [op |-> "post", s |-> s,
                       req |-> [payload |-> payload, exists |-> exists,
                              login |-> "none", upload |-> "none"],
                       status |-> st,
                       body |-> [error |-> "exception"], calls |-> <<>>]
         /\ UNCHANGED <<sess, cl, sessfile>>
    ELSE IF sess[s].instagram_username = Absent
    THEN /\ resp' = [op |-> "post", s |-> s,
                     req |-> [payload |-> payload, exists |-> exists,
                              login |-> "none", upload |-> "none"],
                     status |-> 401,
                     body |-> [success |-> FALSE], calls |-> <<>>]
         /\ UNCHANGED <<sess, cl, sessfile>>
    ELSE IF payload = "no_image_path"
    THEN /\ resp' = [op |-> "post", s |-> s,
                     req |-> [payload |-> payload, exists |-> exists,
                              login |-> "none", upload |-> "none"],
                     status |-> 400,
                     body |-> [success |-> FALSE], calls |-> <<>>]
         /\ UNCHANGED <<sess, cl, sessfile>>
    ELSE \E lout \in ClientLoginOutcomes, flag \in BOOLEAN, uout \in UploadOutcomes :
         LET r == post_to_instagram(s, exists, lout, flag, uout)
         IN /\ ClientLoginPossible(lout, load_settings(cl, sessfile),
                                   SessionGet(sess[s].instagram_username),
                                   SessionGet(sess[s].instagram_password))
            /\ cl' = r.cl
            /\ sessfile' = r.file
            /\ resp' = [op |-> "post", s |-> s,
                        req |-> [payload |-> payload, exists |-> exists,
                                 login |-> r.login, upload |-> r.upload],
                        status |-> IF r.ret THEN 200 ELSE 500,
                        body |-> [success |-> r.ret], calls |-> r.calls]
            /\ UNCHANGED sess

\* ------------------------------------------------------------ specification
Generate ==
    \E s \in Browser, i \in Ideas : generate(s, i)

LastImage == \E s \in Browser : get_last_image(s)

Login ==
    \E s \in Browser, u \in FormUsernames, p \in FormPasswords, o \in LoginOutcomes :
        handle_instagram_login(s, u, p, o)

Logout == \E s \in Browser : logout(s)

Post ==
    \E s \in Browser, pl \in Payloads, e \in BOOLEAN : post(s, pl, e)

Next == Generate \/ LastImage \/ Login \/ Logout \/ Post

Spec == Init /\ [][Next]_vars

\* the requests that touch the process-wide client and the session file,
\* issued by every browser session the one process serves
LoginAny ==
    \E s \in Sessions, u \in FormUsernames, p \in FormPasswords, o \in LoginOutcomes :
        handle_instagram_login(s, u, p, o)

LogoutAny == \E s \in Sessions : logout(s)

PostAny ==
    \E s \in Sessions, pl \in Payloads, e \in BOOLEAN : post(s, pl, e)

NextShared == LoginAny \/ LogoutAny \/ PostAny

SpecShared == Init /\ [][NextShared]_vars

\* --------------------------------------------------------------- undo buffer
\* the two slots of a browser session as session.get reads them
Current(s) == SessionGet(sess[s].last_generated_image_data)
Previous(s) == SessionGet(sess[s].last_generated_image_data_prev)

\* C1: a POST /generate whose image generation succeeds with result R leaves
\* current = R and previous = the value current held immediately before the
\* request (empty if current was empty).
C1_RecordSuccess ==
    [][\A s \in Sessions :
          (resp'.op = "generate" /\ resp'.s = s /\ resp'.status = 200
             /\ resp'.body.image_path # PyNone /\ resp'.body.image_url # PyNone)
          => /\ Current(s)' = resp'.body
             /\ Previous(s)' = Current(s)]_vars

\* two consecutive successes A then B: current = B, previous = A, A # B
C1_Witness ==
    /\ resp.op = "generate" /\ resp.status = 200 /\ resp.body.image_path # PyNone
    /\ Current(resp.s) = resp.body
    /\ Truthy(Previous(resp.s))
    /\ Previous(resp.s) # Current(resp.s)

\* C2: a POST /generate whose image generation fails (no path, no url) leaves
\* both slots of the browser session exactly as they were.
C2_FailureKeepsBuffer ==
    [][\A s \in Sessions :
          (resp'.op = "generate" /\ resp'.s = s /\ resp'.status = 200
             /\ resp'.body.image_path = PyNone)
          => /\ sess'[s].last_generated_image_data = sess[s].last_generated_image_data
             /\ sess'[s].last_generated_image_data_prev =
                    sess[s].last_generated_image_data_prev]_vars

\* a failed generation answered while both slots hold results
C2_Witness ==
    /\ resp.op = "generate" /\ resp.status = 200 /\ resp.body.image_path = PyNone
    /\ Truthy(Current(resp.s))
    /\ Truthy(Previous(resp.s))

\* C3: GET /last_image with a non-empty previous slot returns that previous
\* result, makes it the new current (the old current is not saved) and leaves
\* previous empty.
C3_PopPromotes ==
    [][\A s \in Sessions :
          (resp'.op = "last_image" /\ resp'.s = s /\ Truthy(Previous(s)))
          => /\ resp'.status = 200
             /\ resp'.body = Previous(s)
             /\ Current(s)' = Previous(s)
             /\ ~Truthy(Previous(s)')]_vars

\* a pop that returned A after generations A then B with A # B
C3_Witness ==
    /\ resp.op = "last_image" /\ resp.status = 200
    /\ Truthy(resp.body)
    /\ Current(resp.s) = resp.body
    /\ ~Truthy(Previous(resp.s))

\* C4: undo is single-use.  A successful pop leaves previous empty; while
\* previous is empty every GET /last_image answers 404; and an empty previous
\* stays empty across every request that is not a successful POST /generate
\* of that browser session.
C4_SingleUse ==
    [][\A s \in Sessions :
          LET genOk == /\ resp'.op = "generate" /\ resp'.s = s /\ resp'.status = 200
                       /\ resp'.body.image_path # PyNone
              pop == resp'.op = "last_image" /\ resp'.s = s
          IN /\ (pop /\ resp'.status = 200) => ~Truthy(Previous(s)')
             /\ (~Truthy(Previous(s)) /\ pop) => resp'.status = 404
             /\ (~Truthy(Previous(s)) /\ ~genOk) => ~Truthy(Previous(s)')]_vars

\* a second pop answered 404 although current still holds the popped result
C4_Witness ==
    /\ resp.op = "last_image" /\ resp.status = 404
    /\ Truthy(Current(resp.s))
    /\ sess[resp.s].last_generated_image_data_prev = Absent

\* C5: GET /last_image with an empty previous slot answers 404 and leaves
\* both slots unchanged.
C5_EmptyPopFails ==
    [][\A s \in Sessions :
          (resp'.op = "last_image" /\ resp'.s = s /\ ~Truthy(Previous(s)))
          => /\ resp'.status = 404
             /\ sess'[s].last_generated_image_data = sess[s].last_generated_image_data
             /\ sess'[s].last_generated_image_data_prev =
                    sess[s].last_generated_image_data_prev]_vars

\* a 404 pop after a single success: previous was set to None by that success
C5_Witness ==
    /\ resp.op = "last_image" /\ resp.status = 404
    /\ Truthy(Current(resp.s))
    /\ sess[resp.s].last_generated_image_data_prev = PyNone

\* C6: POST /generate with an empty or missing idea answers 400, calls neither
\* the prompt expander nor the image generator, and leaves both slots
\* unchanged.
C6_EmptyIdeaRejected ==
    [][\A s \in Sessions :
          (resp'.op = "generate" /\ resp'.s = s
             /\ (resp'.req.idea = PyNone \/ resp'.req.idea = Str(<<>>)))
          => /\ resp'.status = 400
             /\ resp'.calls = <<>>
             /\ sess'[s].last_generated_image_data = sess[s].last_generated_image_data
             /\ sess'[s].last_generated_image_data_prev =
                    sess[s].last_generated_image_data_prev]_vars

\* an empty idea rejected while the buffer holds results
C6_Witness ==
    /\ resp.op = "generate" /\ resp.status = 400
    /\ resp.req.idea \in {PyNone, Str(<<>>)}
    /\ Truthy(Current(resp.s))
    /\ Truthy(Previous(resp.s))

\* ------------------------------------------------- authentication and upload
\* C7: POST /post from a browser session with no stored username answers 401
\* for every payload (valid, without image_path, absent or not a JSON
\* object) and makes no login attempt and no upload.
C7_UnauthenticatedPostIs401 ==
    \A s \in Sessions :
        (resp.op = "post" /\ resp.s = s /\ sess[s].instagram_username = Absent)
        => resp.status = 401 /\ resp.calls = <<>>

\* C8: after GET /logout the requesting browser session holds no username and
\* no password, the session file does not exist and the process-wide client
\* is a fresh, unauthenticated instance.
C8_LogoutClearsAll ==
    resp.op = "logout"
    => /\ sess[resp.s].instagram_username = Absent
       /\ sess[resp.s].instagram_password = Absent
       /\ sessfile = NoFile
       /\ cl = FreshClient

\* a completed logout of a browser session that had generated images
C8_Witness ==
    /\ resp.op = "logout"
    /\ sess[resp.s].instagram_username = Absent
    /\ sessfile = NoFile
    /\ cl.user = PyNone
    /\ Truthy(Previous(resp.s))

\* C9: a login submission whose verification succeeds leaves the submitted
\* credentials in the browser session and the session of that login in the
\* session file; one whose verification fails leaves no credentials and no
\* session file; and credentials only ever appear in a browser session
\* through a successful verification.
C9_LoginOutcome ==
    [][\A s \in Sessions :
          LET login == resp'.op = "login" /\ resp'.s = s
              ok == login /\ resp'.req.out = "ok"
              failed == login /\ resp'.req.out = "raise"
          IN /\ ok => /\ sess'[s].instagram_username = resp'.req.username
                      /\ sess'[s].instagram_password = resp'.req.password
                      /\ sessfile' = ValidFile(resp'.req.username)
             /\ failed => /\ sess'[s].instagram_username = Absent
                          /\ sess'[s].instagram_password = Absent
                          /\ sessfile' = NoFile
             /\ (/\ sess'[s].instagram_username # Absent
                 /\ sess'[s].instagram_username # sess[s].instagram_username) => ok
             /\ (/\ sess'[s].instagram_password # Absent
                 /\ sess'[s].instagram_password # sess[s].instagram_password) => ok]_vars

\* a failed verification after an earlier successful login of the same
\* browser session (whose post left the process-wide client authenticated)
C9_Witness ==
    /\ resp.op = "login" /\ resp.req.out = "raise"
    /\ cl.user # PyNone
    /\ sess[resp.s].instagram_username = Absent
    /\ sess[resp.s].instagram_password = Absent
    /\ sessfile = NoFile

\* C10: POST /post with a non-empty image_path that references no existing
\* file reports failure, attempts no login, never invokes the upload, and
\* leaves the process-wide client and the session file unchanged.
C10_MissingFileNoSideEffects ==
    [][(resp'.op = "post" /\ resp'.req.payload = "valid" /\ ~resp'.req.exists)
          => /\ resp'.status \in {401, 500}
             /\ resp'.body.success = FALSE
             /\ resp'.calls = <<>>
             /\ cl' = cl
             /\ sessfile' = sessfile]_vars

\* an authenticated post of a missing file, refused with the session file of
\* the login still in place
C10_Witness ==
    /\ resp.op = "post" /\ resp.req.payload = "valid" /\ ~resp.req.exists
    /\ resp.status = 500
    /\ sess[resp.s].instagram_username # Absent
    /\ sessfile.kind = "valid"

\* the library calls of the last request, by name
Called(fn) == \E i \in 1..Len(resp.calls) : resp.calls[i].fn = fn

\* C11: in an authenticated POST /post with an existing image file the
\* upload call is invoked only as the last call, after the login step of the
\* same request has completed successfully; a failed login step means no
\* upload and 500; an upload that raises means 500; an upload that returns
\* means 200 with success true.
C11_UploadAfterLogin ==
    (/\ resp.op = "post" /\ resp.req.payload = "valid" /\ resp.req.exists
     /\ sess[resp.s].instagram_username # Absent)
    => /\ resp.req.login # "none"
       /\ Called("cl.photo_upload")
            => /\ resp.req.login = "ok"
               /\ resp.calls[Len(resp.calls)].fn = "cl.photo_upload"
               /\ \A i \in 1..(Len(resp.calls) - 1) : resp.calls[i].fn # "cl.photo_upload"
       /\ resp.req.login # "ok"
            => ~Called("cl.photo_upload") /\ resp.status = 500 /\ ~resp.body.success
       /\ resp.req.login = "ok" => Called("cl.photo_upload")
       /\ resp.req.upload = "raise" => resp.status = 500 /\ ~resp.body.success
       /\ resp.req.upload = "ok" => resp.status = 200 /\ resp.body.success

\* a post answered 200 whose login step made a full login before the upload
C11_Witness ==
    /\ resp.op = "post" /\ resp.status = 200 /\ resp.req.upload = "ok"
    /\ Len(resp.calls) >= 3
    /\ resp.calls[Len(resp.calls) - 2].fn = "cl.login"
    /\ resp.calls[Len(resp.calls)].fn = "cl.photo_upload"

\* ------------------------------------------------------------------ pipeline
\* C12: POST /generate passes exactly the string the prompt expander returned
\* to the image generator; when the image service fails the response has
\* image_url = null, image_path = null, a non-empty image_status containing
\* "Error", and detailed_prompt equal to the expander's output.
C12_PipelineAndFailureBody ==
    (resp.op = "generate" /\ resp.status = 200)
    => LET expanded == generate_prompt(resp.req.idea, resp.req.text)
       IN /\ Len(resp.calls) = 2
          /\ resp.calls[1] = [fn |-> "generate_prompt", arg |-> resp.req.idea]
          /\ resp.calls[2] = [fn |-> "generate_image", arg |-> expanded]
          /\ resp.body.detailed_prompt = expanded
          /\ resp.req.image # "ok"
               => /\ resp.body.image_url = PyNone
                  /\ resp.body.image_path = PyNone
                  /\ resp.body.image_status # <<>>
                  /\ \E i \in 1..Len(resp.body.image_status) :
                         resp.body.image_status[i] = "Error"

\* a failed image generation for a prompt that the text service expanded
C12_Witness ==
    /\ resp.op = "generate" /\ resp.status = 200
    /\ resp.req.image = "service_error"
    /\ resp.req.text.kind = "text"
    /\ resp.body.detailed_prompt = Str(<<"p">>)
    /\ resp.body.detailed_prompt # resp.req.idea
    /\ resp.body.image_url = PyNone

\* C13: for every non-empty idea and every outcome of the text service the
\* prompt expander returns a non-empty string, and when the service call
\* fails it returns the original idea unchanged.
C13_ExpandNonEmpty ==
    (resp.op = "generate" /\ resp.status = 200)
    => /\ resp.body.detailed_prompt # Str(<<>>)
       /\ resp.body.detailed_prompt # PyNone
       /\ resp.req.text.kind = "raise" => resp.body.detailed_prompt = resp.req.idea

\* ------------------------------------------------------------ ensureLoggedIn
\* the client as the optional session-file load of login_instagram leaves it
AfterLoad == IF sessfile.kind # "absent" THEN load_settings(cl, sessfile) ELSE cl

\* the last request reached login_instagram
ReachedLogin == resp.op = "post" /\ resp.req.login # "none"

\* C14 (as claimed): with the logged-in flag already true login_instagram
\* makes no login call and returns without changing the client or the
\* session file; with the flag false it makes a full login and, on success,
\* ends with the session file persisted.
C14_FlagSkipsLoginClientUntouched ==
    [][ReachedLogin'
         => /\ cl.logged_in
                 => /\ \A i \in 1..Len(resp'.calls) : resp'.calls[i].fn # "cl.login"
                    /\ resp'.req.login = "ok"
                    /\ sessfile' = sessfile
                    /\ cl' = cl
            /\ ~cl.logged_in
                 => /\ \E i \in 1..Len(resp'.calls) : resp'.calls[i].fn = "cl.login"
                    /\ resp'.req.login = "ok"
                         => cl'.user # PyNone /\ sessfile' = ValidFile(cl'.user)]_vars

\* C14 (amended): with the logged-in flag already true login_instagram makes
\* no login call and returns without changing the session file, the client
\* being exactly what the session-file load made of it (unchanged when there
\* is no readable file); with the flag false it makes a full login and, on
\* success, ends with the session file persisted.
C14_FlagSkipsLogin ==
    [][ReachedLogin'
         => /\ cl.logged_in
                 => /\ \A i \in 1..Len(resp'.calls) : resp'.calls[i].fn # "cl.login"
                    /\ resp'.req.login = "ok"
                    /\ sessfile' = sessfile
                    /\ cl' = AfterLoad
                    /\ sessfile.kind # "valid" => cl' = cl
            /\ ~cl.logged_in
                 => /\ \E i \in 1..Len(resp'.calls) : resp'.calls[i].fn = "cl.login"
                    /\ resp'.req.login = "ok"
                         => cl'.user # PyNone /\ sessfile' = ValidFile(cl'.user)]_vars

\* a post whose login step loaded the session file, found the flag set and
\* went on to the upload without a login call
C14_Witness ==
    /\ ReachedLogin /\ resp.req.login = "ok"
    /\ resp.calls[1].fn = "cl.load_settings"
    /\ ~Called("cl.login")
    /\ Called("cl.photo_upload")
    /\ cl.logged_in

\* C15: whenever login_instagram fails because the full login is rejected or
\* raises, the session file does not exist when it returns its
\* ConnectionError, whatever file existed before the call.
C15_FailedLoginRemovesFile ==
    (ReachedLogin /\ resp.req.login = "ConnectionError") => sessfile = NoFile

\* a failed full login of a request that had loaded a readable session file
C15_Witness ==
    /\ ReachedLogin /\ resp.req.login = "ConnectionError"
    /\ resp.calls[1].fn = "cl.load_settings"
    /\ resp.calls[1].arg.kind = "valid"
    /\ sessfile = NoFile

\* C16: with a corrupt session file login_instagram does not fail at the load
\* step: the load is attempted, the flag check follows, a client whose flag
\* is not set goes on to the full login with the session credentials, the
\* only failure is that of the login call, and a login that returns leaves
\* the newly persisted session in place of the corrupt file.
C16_CorruptFileFallsThrough ==
    [][(ReachedLogin' /\ sessfile = CorruptFile)
         => /\ resp'.calls[1] = [fn |-> "cl.load_settings", arg |-> CorruptFile]
            /\ resp'.req.login \in {"ok", "ConnectionError"}
            /\ ~cl.logged_in
                 => /\ Len(resp'.calls) >= 2
                    /\ resp'.calls[2] = [fn |-> "cl.login",
                                         arg |-> sess[resp'.s].instagram_username]
                    /\ resp'.req.login = "ok"
                         => /\ cl'.user = sess[resp'.s].instagram_username
                            /\ sessfile' = ValidFile(cl'.user)]_vars

\* a post that found the corrupt file, logged in and replaced it
C16_Witness ==
    /\ ReachedLogin /\ resp.req.login = "ok"
    /\ resp.calls[1] = [fn |-> "cl.load_settings", arg |-> CorruptFile]
    /\ resp.calls[2].fn = "cl.login"
    /\ sessfile = ValidFile(sess[resp.s].instagram_username)

\* ------------------------------------------------- several browser sessions
\* C17: the shared client and the single session file are not isolated per
\* browser session.  A logout by one session removes the session file and
\* resets the shared client, a failed login submission removes the session
\* file, and a successful one replaces the session file by the session of
\* its own login, in each case whatever the other sessions hold and without
\* touching what they hold.
C17_SharedStateNotIsolated ==
    [][\A s \in Sessions :
          LET mine == resp'.s = s
              othersKept == \A t \in Sessions \ {s} : sess'[t] = sess[t]
          IN /\ (mine /\ resp'.op = "logout")
                  => sessfile' = NoFile /\ cl' = FreshClient /\ othersKept
             /\ (mine /\ resp'.op = "login" /\ resp'.req.out = "raise")
                  => sessfile' = NoFile /\ cl' = cl /\ othersKept
             /\ (mine /\ resp'.op = "login" /\ resp'.req.out = "ok")
                  => sessfile' = ValidFile(resp'.req.username) /\ othersKept]_vars

\* after the logout of one browser session another one, which logged in
\* during this run of the server, still holds its credentials while the
\* session file is gone and the shared client is fresh
C17_Witness ==
    /\ resp.op = "logout"
    /\ \E t \in Sessions \ (Browser \cup {resp.s}) :
          /\ sess[t].instagram_username # Absent
          /\ sess[t].instagram_password # Absent
    /\ sessfile = NoFile
    /\ cl = FreshClient

\* C18: whenever a POST /post of a browser session holding the credentials
\* of user U invokes the upload call, the process-wide client that uploads is
\* authenticated as U.
C18_UploadAsSessionUser ==
    (resp.op = "post" /\ Called("cl.photo_upload"))
    => cl.user = sess[resp.s].instagram_username

\* C19: after GET /logout or a failed POST /login/instagram/submit both slots
\* of that browser session's undo buffer are empty, so a later GET
\* /last_image cannot return a result generated before.
C19_LogoutEmptiesUndoBuffer ==
    (\/ resp.op = "logout"
     \/ resp.op = "login" /\ resp.req.out = "raise")
    => ~Truthy(Current(resp.s)) /\ ~Truthy(Previous(resp.s))
====
